---- MODULE Spec2Model ----
(***************************************************************************)
(* Optimizer (src/src/phre/optimizer/optimizer.py): the base class of the  *)
(* phase-retrieval solvers.  The model keeps the object's fields, the      *)
(* arrays the caller shares with it (numpy arrays are mutable and passed   *)
(* by reference, so they live in a heap), and the last call with its       *)
(* arguments and outcome.  Arrays are one-dimensional integer sequences;   *)
(* numpy's shape rules (broadcasting, boolean-mask indexing, in-place      *)
(* operands) are modelled as numpy applies them.                           *)
(***************************************************************************)
EXTENDS Integers, Sequences, FiniteSets, TLC

VARIABLES
    problem,      \* the caller's constructor arguments and input vector, as first supplied
    heap,         \* array id -> contents: "obs" (caller's obs), "v" (caller's input), "w" (returned)
    result,       \* the array id the caller holds from the latest returning prox call, "" if none
    constructed,  \* whether __init__ has run
    obs_mat,      \* self.obs_mat
    obs,          \* self.obs: the id of the array it references
    obj_type,     \* self.obj_type
    num_obs,      \* self.num_obs
    image_size,   \* self.image_size
    obj_his,      \* self.obj_his
    err_his,      \* self.err_his
    calls,        \* record_solver_info calls since the latest reset or construction
    last          \* the latest call: operation, arguments, outcome, returned value

vars == <<problem, heap, result, constructed, obs_mat, obs, obj_type, num_obs,
          image_size, obj_his, err_his, calls, last>>

fields == <<obs_mat, obs, obj_type, num_obs, image_size>>
history == <<obj_his, err_his, calls>>

----------------------------------------------------------------------------
(* Bounds of the model.                                                    *)

MaxLen == 2
MaxObs == 2
MaxV == 3
MaxAlpha == 1
MaxHis == 2

----------------------------------------------------------------------------
(* Floats and Python's None, as the history stores them.                   *)

None == [kind |-> "None", val |-> 0]
nan == [kind |-> "nan", val |-> 0]
Num(n) == [kind |-> "float", val |-> n]

(* The exceptions numpy raises on a shape mismatch.                        *)
ShapeError == {"ValueError", "IndexError"}

----------------------------------------------------------------------------
(* numpy on one-dimensional integer arrays.                                *)

Abs(n) == IF n < 0 THEN -n ELSE n
Sign(n) == IF n > 0 THEN 1 ELSE IF n < 0 THEN -1 ELSE 0
Max(a, b) == IF a >= b THEN a ELSE b

RECURSIVE SumSeq(_)
SumSeq(s) == IF Len(s) = 0 THEN 0 ELSE s[1] + SumSeq(Tail(s))

np_sign_zero_positive(a) == [i \in 1..Len(a) |-> IF a[i] >= 0 THEN 1 ELSE -1]
np_sign(a) == [i \in 1..Len(a) |-> Sign(a[i])]
np_abs(a) == [i \in 1..Len(a) |-> Abs(a[i])]

(* Two shapes (n,) and (m,) broadcast when equal or when one of them is 1. *)
Broadcastable(a, b) == Len(a) = Len(b) \/ Len(a) = 1 \/ Len(b) = 1
BLen(a, b) == Max(Len(a), Len(b))
At(a, i) == IF Len(a) = 1 THEN a[1] ELSE a[i]

np_add_scalar(a, s) == [i \in 1..Len(a) |-> a[i] + s]
np_sub_scalar(a, s) == [i \in 1..Len(a) |-> a[i] - s]
np_subtract(a, b) == [i \in 1..BLen(a, b) |-> At(a, i) - At(b, i)]
np_greater(a, b) == [i \in 1..BLen(a, b) |-> At(a, i) > At(b, i)]
np_less(a, b) == [i \in 1..BLen(a, b) |-> At(a, i) < At(b, i)]

(* a *= b: the output keeps a's shape, so b must broadcast to it.          *)
CanIMul(a, b) == Len(b) = Len(a) \/ Len(b) = 1
imul(a, b) == [i \in 1..Len(a) |-> a[i] * At(b, i)]

(* a[mask] and a[mask] = vals: the mask must have a's length.              *)
Rank(mask, i) == Cardinality({j \in 1..i : mask[j]})
Pos(mask, k) == CHOOSE i \in 1..Len(mask) : mask[i] /\ Rank(mask, i) = k
Take(a, mask) == [k \in 1..Rank(mask, Len(mask)) |-> a[Pos(mask, k)]]
Put(a, mask, vals) == [i \in 1..Len(a) |-> IF mask[i] THEN vals[Rank(mask, i)] ELSE a[i]]

(* mat.dot(x) for a matrix given as the sequence of its rows.              *)
Rows(mat) == Len(mat)
Cols(mat) == Len(mat[1])
np_dot(mat, x) ==
    [i \in 1..Rows(mat) |-> SumSeq([j \in 1..Cols(mat) |-> mat[i][j] * x[j]])]

(* obs.copy() allocates a new array: the id of the array it yields.        *)
np_copy_alias(src) == src
np_copy(src) == "w"

----------------------------------------------------------------------------
(* The methods, as functions of the heap and the fields they read.  A call *)
(* yields its outcome ("ok" or the exception raised), the heap it leaves,  *)
(* the id of the array it returns and the scalar it returns.               *)

Raise(kind, h) == [outcome |-> kind, heap |-> h, ret |-> "", val |-> 0]
Return(h, ref) == [outcome |-> "ok", heap |-> h, ret |-> ref, val |-> 0]
ReturnVal(h, n) == [outcome |-> "ok", heap |-> h, ret |-> "", val |-> n]

(* _soft_prox, lines 65-66: the two masks.                                 *)
r_index(v, o, alpha) == np_greater(v, np_add_scalar(o, alpha))
l_index_swapped(v, o, alpha) == np_less(v, [i \in 1..Len(o) |-> alpha - o[i]])
l_index(v, o, alpha) == np_less(v, np_sub_scalar(o, alpha))

(* _soft_prox, lines 68-69: the values assigned under each mask.           *)
r_values_plus(v, mask, alpha) == np_add_scalar(Take(v, mask), alpha)
r_values(v, mask, alpha) == np_sub_scalar(Take(v, mask), alpha)
l_values(v, mask, alpha) == np_add_scalar(Take(v, mask), alpha)

(* _soft_prox(v, alpha) on the array vref.  Line 62 overwrites the         *)
(* caller's array before any shape is compared; the array w local to a     *)
(* call that raises is dropped.                                            *)
soft_prox(h, self_obs, vref, alpha) ==
    LET sign_v == np_sign(h[vref])
        v == imul(h[vref], sign_v)
        h1 == [h EXCEPT ![vref] = v]
        wref == np_copy(self_obs)
        o == h1[self_obs]
        h2 == [h1 EXCEPT ![wref] = o]
    IN  IF ~Broadcastable(v, o) THEN Raise("ValueError", h1)
        ELSE LET r == r_index(v, o, alpha)
                 l == l_index(v, o, alpha)
             IN  IF Len(r) # Len(v) \/ Len(r) # Len(o)
                 THEN Raise("IndexError", h1)
                 ELSE LET h3 == [h2 EXCEPT ![wref] = Put(@, r, r_values(v, r, alpha))]
                          h4 == [h3 EXCEPT ![wref] = Put(@, l, l_values(v, l, alpha))]
                          h5 == [h4 EXCEPT ![wref] = imul(@, sign_v)]
                      IN  Return(h5, wref)

(* _hard_prox(v) on the array vref.                                        *)
hard_prox(h, self_obs, vref) ==
    LET sign_v == np_sign(h[vref])
        wref == np_copy(self_obs)
        h1 == [h EXCEPT ![wref] = h[self_obs]]
    IN  IF ~CanIMul(h1[wref], sign_v) THEN Raise("ValueError", h)
        ELSE Return([h1 EXCEPT ![wref] = imul(@, sign_v)], wref)

(* objective(x).                                                           *)
objective_no_inner_abs(h, mat, self_obs, xref) ==
    IF Len(h[xref]) # Cols(mat) THEN Raise("ValueError", h)
    ELSE LET y == np_dot(mat, h[xref])
         IN  IF ~Broadcastable(y, h[self_obs]) THEN Raise("ValueError", h)
             ELSE ReturnVal(h, SumSeq(np_abs(np_subtract(y, h[self_obs]))))
objective(h, mat, self_obs, xref) ==
    IF Len(h[xref]) # Cols(mat) THEN Raise("ValueError", h)
    ELSE LET y == np_dot(mat, h[xref])
         IN  IF ~Broadcastable(y, h[self_obs]) THEN Raise("ValueError", h)
             ELSE ReturnVal(h, SumSeq(np_abs(np_subtract(np_abs(y), h[self_obs]))))

(* reset_solver_info().                                                    *)
reset_obj_his_only(oh, eh) == [obj_his |-> <<>>, err_his |-> eh]
reset_solver_info(oh, eh) == [obj_his |-> <<>>, err_his |-> <<>>]

(* record_solver_info(obj, err), lines 122-123: None becomes np.nan.       *)
nan_if_falsy(x) == IF x = None \/ x = Num(0) THEN nan ELSE x
nan_if_None(x) == IF x = None THEN nan ELSE x

record_solver_info(oh, eh, obj, err) ==
    [obj_his |-> Append(oh, nan_if_None(obj)), err_his |-> Append(eh, nan_if_None(err))]

----------------------------------------------------------------------------
(* The inputs.                                                             *)

Vecs(lo, hi, maxlen) == UNION {[1..n -> lo..hi] : n \in 1..maxlen}
Identity(n) == [i \in 1..n |-> [j \in 1..n |-> IF i = j THEN 1 ELSE 0]]
Prob(m, o, v) == [mat |-> m, obs |-> o, v |-> v]

(* Real observation operators of shapes 1x1, 2x2, 1x2 and 2x1.             *)
Operators ==
    {Identity(1), Identity(2), <<<<1, -1>>, <<1, 1>>>>, <<<<0, -1>>>>, <<<<1>>, <<-1>>>>}

(* The 2x2 scenario (identity operator, observations [3, 4]) with inputs   *)
(* of matching and of mismatched length, and constructions whose obs       *)
(* length differs from the operator's row count.                           *)
ScenarioInputs == {<<5, 5>>, <<-5, 5>>, <<3, 4>>, <<0, 0>>, <<-5>>, <<1, -2, 3>>}
ScenarioProblems ==
    {Prob(Identity(2), <<3, 4>>, v) : v \in ScenarioInputs}
    \cup {Prob(Identity(2), o, <<-5, 5>>) : o \in {<<3>>, <<3, 4, 0>>}}

(* Non-negative observation vectors and input vectors of every length up  *)
(* to MaxLen.                                                              *)
ObsVectors == Vecs(0, MaxObs, MaxLen)
InputVectors == Vecs(-MaxV, MaxV, MaxLen)

Alphas == 0..MaxAlpha
RecordArgs == {None, Num(0), Num(1)}
WriteValue == -1

----------------------------------------------------------------------------
(* The state before construction: the caller holds its arrays, the object  *)
(* has no fields yet.                                                      *)

NoCall == [op |-> "none", outcome |-> "ok", v0 |-> <<>>, alpha |-> 0,
           ret |-> "", val |-> 0, obj |-> None, err |-> None]
Call(op, outcome) == [NoCall EXCEPT !.op = op, !.outcome = outcome]

Start(p) ==
    /\ problem = p
    /\ heap = [a \in {"obs", "v", "w"} |-> IF a = "obs" THEN p.obs ELSE IF a = "v" THEN p.v ELSE <<>>]
    /\ result = ""
    /\ constructed = FALSE
    /\ obs_mat = <<>>
    /\ obs = ""
    /\ obj_type = ""
    /\ num_obs = 0
    /\ image_size = 0
    /\ obj_his = <<>>
    /\ err_his = <<>>
    /\ calls = 0
    /\ last = NoCall

Init == \E p \in ScenarioProblems : Start(p)
(* Well-formed problems for the proximal operators: the identity operator  *)
(* of the observations' length, every observation and input vector.        *)
InitProx == \E o \in ObsVectors, v \in InputVectors : Start(Prob(Identity(Len(o)), o, v))

(* Problems for the objective: every operator with every observation and   *)
(* input vector, and the 2x2 scenario.                                     *)
InitObj ==
    \/ \E m \in Operators, o \in ObsVectors, x \in InputVectors : Start(Prob(m, o, x))
    \/ \E x \in {<<3, 4>>, <<0, 0>>, <<-3, 4>>} : Start(Prob(Identity(2), <<3, 4>>, x))

----------------------------------------------------------------------------
(* The operations.                                                         *)

(* __init__(obs_mat, obs, obj_type='soft'): stores its arguments (obs by   *)
(* reference), derives the two sizes, starts both histories empty.  It     *)
(* compares no shapes.                                                     *)
Construct ==
    /\ ~constructed
    /\ constructed' = TRUE
    /\ obs_mat' = problem.mat
    /\ obs' = "obs"
    /\ obj_type' = "soft"
    /\ num_obs' = Rows(problem.mat)
    /\ image_size' = Cols(problem.mat)
    /\ obj_his' = <<>>
    /\ err_his' = <<>>
    /\ calls' = 0
    /\ last' = Call("__init__", "ok")
    /\ UNCHANGED <<problem, heap, result>>

PhaseRetrieval ==
    /\ constructed
    /\ last' = Call("phase_retrieval", "NotImplementedError")
    /\ UNCHANGED <<problem, heap, result, constructed, fields, history>>

SoftProx(alpha) ==
    /\ constructed
    /\ \E r \in {soft_prox(heap, obs, "v", alpha)} :
           /\ heap' = r.heap
           /\ result' = IF r.outcome = "ok" THEN r.ret ELSE result
           /\ last' = [Call("_soft_prox", r.outcome) EXCEPT
                          !.v0 = heap["v"], !.alpha = alpha, !.ret = r.ret]
    /\ UNCHANGED <<problem, constructed, fields, history>>

HardProx ==
    /\ constructed
    /\ \E r \in {hard_prox(heap, obs, "v")} :
           /\ heap' = r.heap
           /\ result' = IF r.outcome = "ok" THEN r.ret ELSE result
           /\ last' = [Call("_hard_prox", r.outcome) EXCEPT !.v0 = heap["v"], !.ret = r.ret]
    /\ UNCHANGED <<problem, constructed, fields, history>>

Objective ==
    /\ constructed
    /\ \E r \in {objective(heap, obs_mat, obs, "v")} :
           /\ heap' = r.heap
           /\ last' = [Call("objective", r.outcome) EXCEPT !.v0 = heap["v"], !.val = r.val]
    /\ UNCHANGED <<problem, result, constructed, fields, history>>

ResetSolverInfo ==
    /\ constructed
    /\ \E r \in {reset_solver_info(obj_his, err_his)} :
           /\ obj_his' = r.obj_his
           /\ err_his' = r.err_his
    /\ calls' = 0
    /\ last' = Call("reset_solver_info", "ok")
    /\ UNCHANGED <<problem, heap, result, constructed, fields>>

RecordSolverInfo(obj, err) ==
    /\ constructed
    /\ calls < MaxHis
    /\ \E r \in {record_solver_info(obj_his, err_his, obj, err)} :
           /\ obj_his' = r.obj_his
           /\ err_his' = r.err_his
    /\ calls' = calls + 1
    /\ last' = [Call("record_solver_info", "ok") EXCEPT !.obj = obj, !.err = err]
    /\ UNCHANGED <<problem, heap, result, constructed, fields>>

(* The caller writes into the array a proximal operator returned.          *)
WriteResult(i) ==
    /\ result # ""
    /\ i \in 1..Len(heap[result])
    /\ heap' = [heap EXCEPT ![result][i] = WriteValue]
    /\ last' = Call("write", "ok")
    /\ UNCHANGED <<problem, result, constructed, fields, history>>

Next ==
    \/ Construct
    \/ PhaseRetrieval
    \/ \E alpha \in Alphas : SoftProx(alpha)
    \/ HardProx
    \/ Objective
    \/ ResetSolverInfo
    \/ \E obj \in RecordArgs, err \in {None, Num(0)} : RecordSolverInfo(obj, err)
    \/ \E i \in 1..(MaxLen + 1) : WriteResult(i)

NextProx ==
    \/ Construct
    \/ \E alpha \in Alphas : SoftProx(alpha)
    \/ HardProx

NextObj ==
    \/ Construct
    \/ Objective
    \/ RecordSolverInfo(None, None)
    \/ ResetSolverInfo

Spec == Init /\ [][Next]_vars
SpecProx == InitProx /\ [][NextProx]_vars
SpecObj == InitObj /\ [][NextObj]_vars

----------------------------------------------------------------------------
(* The properties.                                                         *)

IsCall(op) == last.op = op
SameLength == Len(last.v0) = Len(heap[obs])
NonNegative(o) == \A i \in 1..Len(o) : o[i] >= 0

(* C1: both histories have exactly as many entries as record_solver_info   *)
(* was called since the latest reset_solver_info (or since construction),  *)
(* so they are equally long, a record adds one entry to each and a reset   *)
(* leaves none.                                                            *)
C1_HistoryLengths == Len(obj_his) = calls /\ Len(err_his) = calls

C1_Witness ==
    /\ IsCall("record_solver_info")
    /\ calls = 2
    /\ Len(obj_his) = 2
    /\ Len(err_his) = 2

(* C2: a record_solver_info(obj, err) call appends to obj_his exactly obj, *)
(* or nan when obj is omitted, and likewise err to err_his; a zero is      *)
(* stored as zero and not as nan; the earlier entries stay as they were.   *)
C2_Stored(a) == IF a.kind = "None" THEN nan ELSE a

C2_RecordAppends ==
    [][calls' = calls + 1 =>
         /\ obj_his' = Append(obj_his, C2_Stored(last'.obj))
         /\ err_his' = Append(err_his, C2_Stored(last'.err))
         /\ (last'.obj = Num(0) => obj_his'[Len(obj_his')] = Num(0))
         /\ (last'.err = Num(0) => err_his'[Len(err_his')] = Num(0))
         /\ Num(0) # nan]_vars

C2_Witness ==
    /\ IsCall("record_solver_info")
    /\ last.obj = Num(0)
    /\ last.err = None
    /\ obj_his = <<nan, Num(0)>>
    /\ err_his = <<Num(0), nan>>

(* C3: constructing with an obs vector whose length differs from the       *)
(* operator's row count fails with a ShapeError and yields no instance;    *)
(* construction succeeds when the lengths match, with empty histories.     *)
C3_MismatchedConstructionFails ==
    IsCall("__init__") =>
        IF Len(problem.obs) # Rows(problem.mat)
        THEN last.outcome \in ShapeError /\ ~constructed
        ELSE last.outcome = "ok" /\ constructed /\ obj_his = <<>> /\ err_his = <<>>

(* C4, as claimed: for alpha > 0, non-negative observations and v of their *)
(* length, the soft proximal operator returns, per coordinate with         *)
(* a = |v[i]| and o = obs[i]: sign(v[i])*(a - alpha) if a > o + alpha,     *)
(* sign(v[i])*(a + alpha) if a < o - alpha, and sign(v[i])*o otherwise;    *)
(* at both boundaries a = o + alpha and a = o - alpha the result has       *)
(* magnitude o.                                                            *)
C4_Soft(x, o, alpha) ==
    IF Abs(x) > o + alpha THEN Sign(x) * (Abs(x) - alpha)
    ELSE IF Abs(x) < o - alpha THEN Sign(x) * (Abs(x) + alpha)
    ELSE Sign(x) * o

C4_Case == IsCall("_soft_prox") /\ last.alpha > 0 /\ SameLength /\ NonNegative(heap[obs])
C4_AtBoundary(i) ==
    \/ Abs(last.v0[i]) = heap[obs][i] + last.alpha
    \/ Abs(last.v0[i]) = heap[obs][i] - last.alpha

C5_AlphaZeroIsHardProx ==
    (IsCall("_soft_prox") /\ last.alpha = 0 /\ SameLength) =>
        /\ last.outcome = "ok"
        /\ \A i \in 1..Len(last.v0) :
              heap[last.ret][i] = Sign(last.v0[i]) * heap[obs][i]

(* C5, amended: with alpha = 0 the soft proximal operator returns the      *)
(* values v held at the call, at every coordinate; that is the hard        *)
(* proximal operator's output exactly at the coordinates where             *)
(* |v[i]| = obs[i] or v[i] = 0.                                            *)
C5_AlphaZeroIsIdentity ==
    (IsCall("_soft_prox") /\ last.alpha = 0 /\ SameLength /\ NonNegative(heap[obs])) =>
        /\ last.outcome = "ok"
        /\ Len(heap[last.ret]) = Len(last.v0)
        /\ \A i \in 1..Len(last.v0) :
              /\ heap[last.ret][i] = last.v0[i]
              /\ (heap[last.ret][i] = Sign(last.v0[i]) * heap[obs][i])
                    <=> (Abs(last.v0[i]) = heap[obs][i] \/ last.v0[i] = 0)

C5_Witness ==
    /\ IsCall("_soft_prox")
    /\ last.outcome = "ok"
    /\ last.alpha = 0
    /\ heap[obs] = <<2, 2>>
    /\ last.v0 = <<-3, 1>>
    /\ heap[last.ret] = <<-3, 1>>

(* C6: for v of the observations' length the hard proximal operator        *)
(* returns w with w[i] = sign(v[i]) * obs[i]: |w[i]| = obs[i] where v[i]   *)
(* is nonzero and w[i] = 0 where v[i] = 0.                                 *)
C6_HardProxClosedForm ==
    (IsCall("_hard_prox") /\ SameLength /\ Len(last.v0) = num_obs) =>
        /\ last.outcome = "ok"
        /\ last.ret # ""
        /\ Len(heap[last.ret]) = Len(last.v0)
        /\ \A i \in 1..Len(last.v0) :
              /\ heap[last.ret][i] = Sign(last.v0[i]) * heap[obs][i]
              /\ (last.v0[i] # 0 => Abs(heap[last.ret][i]) = heap[obs][i])
              /\ (last.v0[i] = 0 => heap[last.ret][i] = 0)

C6_Witness ==
    /\ IsCall("_hard_prox")
    /\ last.outcome = "ok"
    /\ heap[obs] = <<2, 1>>
    /\ last.v0 = <<-3, 0>>
    /\ heap[last.ret] = <<-2, 0>>

(* C7: the stored operator and the stored observations keep the values     *)
(* given at construction whatever is called, and the array a proximal      *)
(* operator returns is not the stored observations, so the caller's        *)
(* writes into it do not reach them.                                       *)
C7_ProblemDataUnchanged ==
    constructed =>
        /\ obs_mat = problem.mat
        /\ heap[obs] = problem.obs
        /\ (result # "" => result # obs)

C7_Witness ==
    /\ IsCall("write")
    /\ result # ""
    /\ heap[result] = <<-1, -1>>
    /\ heap[obs] = <<3, 4>>
    /\ Len(obj_his) > 0

(* C8: after either proximal operator returns, the caller's v holds the    *)
(* values it held before the call.                                         *)
C8_InputUntouched ==
    ((IsCall("_soft_prox") \/ IsCall("_hard_prox")) /\ last.outcome = "ok") =>
        heap["v"] = last.v0

(* C9: objective with x of a length other than image_size, and either      *)
(* proximal operator with v of a length other than the observations',      *)
(* fails with a ShapeError and returns nothing.                            *)
C9_MismatchRaises ==
    \/ IsCall("objective") /\ Len(last.v0) # image_size
    \/ (IsCall("_soft_prox") \/ IsCall("_hard_prox")) /\ ~SameLength
    => last.outcome \in ShapeError /\ last.ret = ""

(* C10: for x of length image_size (and observations of length num_obs),   *)
(* objective(x) is the sum over the observations i of                      *)
(* | |(A x)[i]| - obs[i] |: it is >= 0, it is 0 when |A x| = obs, it is    *)
(* objective(-x), and the call leaves both histories as they were; with    *)
(* the 2x2 identity and obs [3, 4], objective([3, 4]) = 0 and              *)
(* objective([0, 0]) = 7.                                                  *)
C10_Ax(mat, x, i) == SumSeq([j \in 1..Len(x) |-> mat[i][j] * x[j]])
C10_Mismatch(mat, o, x) == SumSeq([i \in 1..Len(o) |-> Abs(Abs(C10_Ax(mat, x, i)) - o[i])])
C10_Neg(x) == [i \in 1..Len(x) |-> -x[i]]

C10_Value ==
    (IsCall("objective") /\ Len(last.v0) = image_size /\ Len(heap[obs]) = num_obs) =>
        /\ last.outcome = "ok"
        /\ last.val = C10_Mismatch(obs_mat, heap[obs], last.v0)
        /\ last.val >= 0
        /\ ((\A i \in 1..num_obs : Abs(C10_Ax(obs_mat, last.v0, i)) = heap[obs][i])
              => last.val = 0)
        /\ last.val = objective([heap EXCEPT !["v"] = C10_Neg(last.v0)], obs_mat, obs, "v").val
        /\ ((obs_mat = Identity(2) /\ heap[obs] = <<3, 4>> /\ last.v0 = <<3, 4>>)
              => last.val = 0)
        /\ ((obs_mat = Identity(2) /\ heap[obs] = <<3, 4>> /\ last.v0 = <<0, 0>>)
              => last.val = 7)

C10_Objective ==
    /\ []C10_Value
    /\ [][last'.op = "objective" => UNCHANGED <<obj_his, err_his>>]_vars

C10_Witness ==
    /\ IsCall("objective")
    /\ last.outcome = "ok"
    /\ obs_mat = Identity(2)
    /\ heap[obs] = <<3, 4>>
    /\ last.v0 = <<0, 0>>
    /\ last.val = 7
    /\ Len(obj_his) = 2

====
